---- MODULE Spec2Model ----
(***************************************************************************)
(* hexagen: the project scaffolding tool of src/main.go (the third copy    *)
(* of the program in that file, lines 430-663, the one that embeds         *)
(* templates/* and runs `go mod tidy`).                                    *)
(*                                                                         *)
(* The state is the file system around the target directory, the parsed    *)
(* command line, the lines typed on stdin, the embedded template store,    *)
(* and the position of main/generate.  A string is a sequence of atomic    *)
(* pieces (<<" ", "y", "\n">> is " y\n"), so that TrimSpace, ToLower and   *)
(* concatenation are computed and not assumed.  A path is the sequence of  *)
(* its components; <<>> is the directory that holds the target root.       *)
(***************************************************************************)
EXTENDS Naturals, Sequences, FiniteSets

VARIABLES
    pc,        \* position of main / generate
    idx,       \* which writeTemplate call of generate is next
    fs,        \* the file system: path -> node
    flags,     \* the values flag.Parse() left in the flag variables
    stdin,     \* what the user types on standard input
    cfg,       \* main's cfg, as passed to generate
    tmplFS,    \* the embedded template store: template path -> what it is known to hold
    err,       \* the error generate returns (Nil is nil)
    ops,       \* the file system and template calls attempted by this run of generate
    exitCode,  \* the process exit status, meaningful once pc = "exit"
    installs,  \* the calls of installDependencies made so far
    fs0,       \* the file system when the program started
    fs1,       \* the file system when generate returned the last time before this run
    run        \* how many times generate has been entered

vars == <<pc, idx, fs, flags, stdin, cfg, tmplFS, err, ops, exitCode, installs, fs0, fs1, run>>

(***************************************************************************)
(* Bounds                                                                  *)
(***************************************************************************)
\* entries that exist under the root before the program starts
MaxPre == 1
\* runs of generate in a row (the second one is the re-run)
MaxRuns == 2

(***************************************************************************)
(* Paths and manifests                                                     *)
(***************************************************************************)
Top == <<>>
Root == <<"root">>
Other == <<"other.txt">>

dirs ==
    << <<"cmd">>,
       <<"commons", "constants">>,
       <<"commons", "error">>,
       <<"commons", "utils">>,
       <<"config", "constants">>,
       <<"config", "env">>,
       <<"config", "init">>,
       <<"recievers">>,
       <<"services", "serviceName", "service_init">>,
       <<"services", "serviceName", "data">>,
       <<"services", "serviceName", "internal">>,
       <<"services", "serviceName", "routes">>,
       <<"services", "serviceName", "utils">> >>

templates ==
    << [out |-> <<"cmd", "main.go">>, tmpl |-> "templates/app.go.tmpl"],
       [out |-> <<"services", "serviceName", "routes", "router.go">>, tmpl |-> "templates/router.go.tmpl"],
       [out |-> <<"config", "init", "serverConfig.go">>, tmpl |-> "templates/serverConfig.go.tmpl"],
       [out |-> <<"commons", "utils", "logger.go">>, tmpl |-> "templates/logger.go.tmpl"] >>

Gitkeep == <<".gitkeep">>
GoMod == <<"go.mod">>
Makefile == <<"Makefile">>
GoSum == <<"go.sum">>
Foo == <<"foo.txt">>
Vendor == <<"vendor">>
Dep == <<"vendor", "dep.txt">>

Join(a, b) == a \o b
Dir(p) == SubSeq(p, 1, Len(p) - 1)
Prefixes(p) == {SubSeq(p, 1, n) : n \in 1..Len(p)}
IsUnder(p, q) == Len(p) > Len(q) /\ SubSeq(p, 1, Len(q)) = q

DirPaths == {Join(Root, dirs[i]) : i \in DOMAIN dirs}
MarkerPaths == {Join(d, Gitkeep) : d \in DirPaths}
OutPaths == {Join(Root, templates[k].out) : k \in DOMAIN templates}
StaticPaths == {Join(Root, GoMod), Join(Root, Makefile)}

Paths ==
    {Top, Other, Join(Root, Foo), Join(Root, GoSum), Join(Root, Vendor), Join(Root, Dep)}
    \cup StaticPaths
    \cup UNION {Prefixes(p) : p \in MarkerPaths \cup OutPaths}

\* os.ReadDir returns the entries sorted by file name (byte order)
RootNames ==
    <<"Makefile", "cmd", "commons", "config", "foo.txt", "go.mod", "go.sum", "recievers", "services", "vendor">>

(***************************************************************************)
(* File system                                                             *)
(***************************************************************************)
NoNode == [kind |-> "none", w |-> FALSE, data |-> <<>>]
DirNode(w) == [kind |-> "dir", w |-> w, data |-> <<>>]
FileNode(w, data) == [kind |-> "file", w |-> w, data |-> data]

Exists(f, p) == f[p].kind # "none"
IsDir(f, p) == f[p].kind = "dir"
IsFile(f, p) == f[p].kind = "file"
Children(f, p) == {q \in Paths : Len(q) = Len(p) + 1 /\ Dir(q) = p /\ Exists(f, q)}

\* every entry lives in a directory
WellFormed(f) == \A p \in Paths \ {Top} : Exists(f, p) => IsDir(f, Dir(p))

RECURSIVE MkdirAll(_, _)
MkdirAll(f, p) ==
    IF Exists(f, p) \/ p = Top THEN f
    ELSE LET g == MkdirAll(f, Dir(p))
         IN IF IsDir(g, Dir(p)) /\ g[Dir(p)].w
            THEN [g EXCEPT ![p] = DirNode(TRUE)]
            ELSE g

CanOpen(f, p) ==
    IF Exists(f, p)
    THEN IsFile(f, p) /\ f[p].w
    ELSE IsDir(f, Dir(p)) /\ f[Dir(p)].w

WriteFile(f, p, data) ==
    IF CanOpen(f, p) THEN [f EXCEPT ![p] = FileNode(TRUE, data)] ELSE f

RECURSIVE RemoveAll(_, _)
RECURSIVE RemoveEach(_, _)
RemoveEach(f, S) ==
    IF S = {} THEN f
    ELSE LET q == CHOOSE x \in S : TRUE
         IN RemoveEach(RemoveAll(f, q), S \ {q})

RemoveAll(f, p) ==
    IF ~Exists(f, p) THEN f
    ELSE LET g == RemoveEach(f, Children(f, p))
         IN IF Children(g, p) = {} /\ g[Dir(p)].w
            THEN [g EXCEPT ![p] = NoNode]
            ELSE g

(***************************************************************************)
(* Strings                                                                 *)
(***************************************************************************)
Space == {" ", "\n", "\t", "\r"}

RECURSIVE TrimLeft(_)
TrimLeft(s) == IF s # <<>> /\ Head(s) \in Space THEN TrimLeft(Tail(s)) ELSE s

RECURSIVE TrimRight(_)
TrimRight(s) ==
    IF s # <<>> /\ s[Len(s)] \in Space THEN TrimRight(SubSeq(s, 1, Len(s) - 1)) ELSE s

TrimSpace(s) == TrimRight(TrimLeft(s))

Lower(c) == IF c = "Y" THEN "y" ELSE IF c = "N" THEN "n" ELSE c
ToLower(s) == [i \in DOMAIN s |-> Lower(s[i])]

\* bufio.Reader.ReadString('\n'): the input up to and including the first newline,
\* or all of it at end of input
NewlineAt(s) == {i \in DOMAIN s : s[i] = "\n"}
FirstNewline(s) == CHOOSE i \in NewlineAt(s) : \A j \in NewlineAt(s) : i <= j
ReadString(s) == IF NewlineAt(s) = {} THEN s ELSE SubSeq(s, 1, FirstNewline(s))
Rest(s) == IF NewlineAt(s) = {} THEN <<>> ELSE SubSeq(s, FirstNewline(s) + 1, Len(s))

\* the n-th line main reads from stdin
RECURSIVE Line(_, _)
Line(s, n) == IF n = 1 THEN ReadString(s) ELSE Line(Rest(s), n - 1)

(***************************************************************************)
(* File contents                                                           *)
(***************************************************************************)
GoModContent(module) == <<"module ">> \o module \o <<"\n\ngo 1.22.0\n">>
MakefileContent(port) ==
    <<"PORT ?= ">> \o port
    \o <<"\n\nrun:\n\tgo run ./cmd/main.go\n\nbuild:\n\tgo build -o bin/app ./cmd/main.go\n\ntest:\n\tgo test ./...\n\nsetup:\n\tgo mod tidy\n">>
\* text/template output: the template's text, executed on MODULE and PORT
Rendered(t, c) == <<t, "MODULE=">> \o c.ModuleName \o <<"PORT=">> \o c.Port
\* what Execute had written when it failed
Partial(t) == <<t, "partial">>
Empty == <<>>
Old == <<"old">>

(***************************************************************************)
(* The log of calls and the error value                                    *)
(***************************************************************************)
Call(op, path, ok) == [op |-> op, path |-> path, ok |-> ok]
Nil == Call("nil", <<>>, TRUE)

(***************************************************************************)
(* Initial states                                                          *)
(***************************************************************************)
\* the paths under the root where an entry may exist before the program starts
Seed(q, n) == [path |-> Join(Root, q), node |-> n, locked |-> FALSE]
\* an entry whose directory is not writable
Locked(q, n) == [path |-> Join(Root, q), node |-> n, locked |-> TRUE]
\* the entries that may exist under the root before the program starts: unrelated
\* files, and generated paths held by a file or a directory, writable or not
Seeds ==
    {Seed(Foo, FileNode(TRUE, Old)),
     Seed(Dep, FileNode(TRUE, Old)), Locked(Dep, FileNode(TRUE, Old)),
     Locked(<<"cmd", "main.go">>, FileNode(TRUE, Old)),
     Seed(GoMod, FileNode(TRUE, Old)), Seed(GoMod, FileNode(FALSE, Old)), Seed(GoMod, DirNode(TRUE)),
     Seed(Makefile, FileNode(FALSE, Old)),
     Seed(<<"cmd">>, DirNode(TRUE)), Seed(<<"cmd">>, DirNode(FALSE)), Seed(<<"cmd">>, FileNode(TRUE, Old)),
     Seed(<<"cmd", "main.go">>, FileNode(TRUE, Old)), Seed(<<"cmd", "main.go">>, FileNode(FALSE, Old)),
     Seed(<<"cmd", ".gitkeep">>, FileNode(TRUE, Old)), Seed(<<"cmd", ".gitkeep">>, FileNode(FALSE, Old)),
     Seed(<<"cmd", ".gitkeep">>, DirNode(TRUE)),
     Seed(<<"recievers">>, FileNode(TRUE, Old)), Seed(<<"recievers">>, DirNode(FALSE)),
     Seed(<<"commons", "utils">>, DirNode(FALSE)),
     Seed(<<"services", "serviceName">>, DirNode(FALSE)),
     Seed(GoSum, FileNode(TRUE, Old))}

RECURSIVE SubsetsUpTo(_, _)
SubsetsUpTo(S, n) ==
    IF n = 0 THEN {{}}
    ELSE LET prev == SubsetsUpTo(S, n - 1)
         IN prev \cup {T \cup {x} : T \in prev, x \in S}

\* the tree with the given seeds; the directories leading to a seed exist, and are
\* writable unless they hold a locked seed
Tree(topW, rootNode, S) ==
    [p \in Paths |->
        IF p = Top THEN DirNode(topW)
        ELSE IF p = Other THEN FileNode(TRUE, Old)
        ELSE IF p = Root THEN rootNode
        ELSE IF \E s \in S : s.path = p THEN (CHOOSE s \in S : s.path = p).node
        ELSE IF \E s \in S : IsUnder(s.path, p) THEN DirNode(\A s \in S : Dir(s.path) = p => ~s.locked)
        ELSE NoNode]

SeedSets ==
    {S \in SubsetsUpTo(Seeds, MaxPre) :
        /\ \A s, t \in S : s.path = t.path => s = t
        /\ WellFormed(Tree(TRUE, DirNode(TRUE), S))}

\* no root yet; the parent may refuse its creation
PristineTrees == {Tree(w, NoNode, {}) : w \in BOOLEAN}

InitialTrees ==
    PristineTrees
    \cup {Tree(TRUE, FileNode(TRUE, Old), {})}
    \cup {Tree(TRUE, DirNode(w), S) : w \in BOOLEAN, S \in SeedSets}

DefaultArgs == [r |-> <<".">>, m |-> <<>>, p |-> <<"8080">>]
CustomArgs == [r |-> <<"proj">>, m |-> <<"github.com/acme/widget">>, p |-> <<"9090">>]
Args == {DefaultArgs, CustomArgs}

Flags(showVersion, interactive, a, g, c) ==
    [showVersion |-> showVersion, interactive |-> interactive,
     r |-> a.r, m |-> a.m, p |-> a.p, g |-> g, c |-> c]

\* the answers to the three text prompts: all left empty, or all typed
TextLines == {<<"\n", "\n", "\n">>, <<" ", "out", "\n", "example.com/app", "\n", "7000", " ", "\n">>}
YesNoLines == {<<"\n">>, <<" ", "Y", "\n">>, <<"n", "\n">>}
Typed == {t \o l4 \o l5 : t \in TextLines, l4 \in YesNoLines, l5 \in YesNoLines}

TemplateStates == {"ok", "missing", "badsyntax", "execfail"}
ZeroConfig == [Root |-> <<>>, ModuleName |-> <<>>, Port |-> <<>>, Gitkeep |-> FALSE, Clean |-> FALSE]

\* a plain command line over every initial tree
InitTree ==
    /\ fs \in InitialTrees
    /\ flags \in {Flags(FALSE, FALSE, DefaultArgs, g, c) : g \in BOOLEAN, c \in BOOLEAN}
    /\ stdin = <<>>

\* every command line, with or without typed answers, where no root exists yet
InitCommandLine ==
    /\ fs = Tree(TRUE, NoNode, {})
    /\ flags \in {Flags(v, i, a, g, c) :
                    v \in BOOLEAN, i \in BOOLEAN, a \in Args, g \in BOOLEAN, c \in BOOLEAN}
    /\ stdin \in (IF flags.interactive THEN Typed ELSE {<<>>})

Init ==
    /\ (InitTree \/ InitCommandLine)
    /\ pc = "main"
    /\ idx = 1
    /\ cfg = ZeroConfig
    /\ tmplFS = [k \in {templates[j].tmpl : j \in DOMAIN templates} |-> "unknown"]
    /\ err = Nil
    /\ ops = <<>>
    /\ exitCode = 0
    /\ installs = <<>>
    /\ fs0 = fs
    /\ fs1 = fs
    /\ run = 0

(***************************************************************************)
(* main: the configuration                                                 *)
(***************************************************************************)
FromFlags(fl) ==
    [Root |-> fl.r, ModuleName |-> fl.m, Port |-> fl.p, Gitkeep |-> fl.g, Clean |-> fl.c]

\* the five prompts, each reading one line
Prompted(c, in) ==
    [Root       |-> IF TrimSpace(Line(in, 1)) # <<>> THEN TrimSpace(Line(in, 1)) ELSE c.Root,
     ModuleName |-> IF TrimSpace(Line(in, 2)) # <<>> THEN TrimSpace(Line(in, 2)) ELSE c.ModuleName,
     Port       |-> IF TrimSpace(Line(in, 3)) # <<>> THEN TrimSpace(Line(in, 3)) ELSE c.Port,
     Gitkeep    |-> IF ToLower(TrimSpace(Line(in, 4))) = <<"y">> THEN TRUE ELSE c.Gitkeep,
     Clean      |-> IF ToLower(TrimSpace(Line(in, 5))) = <<"y">> THEN TRUE ELSE c.Clean]

DefaultModule == <<"service.com/service">>
WithDefaultModule(c) ==
    IF c.ModuleName = <<>> THEN [c EXCEPT !.ModuleName = DefaultModule] ELSE c

ResolvedConfig(fl, in) ==
    WithDefaultModule(IF fl.interactive THEN Prompted(FromFlags(fl), in) ELSE FromFlags(fl))

(***************************************************************************)
(* generate: what each step does to the file system, the calls it makes    *)
(* and the error it returns                                                *)
(***************************************************************************)
Step(f, calls, e) == [fs |-> f, calls |-> calls, err |-> e]

\* mutant: the error of the root's MkdirAll dropped like the others
RootStepDropped(f) ==
    LET g == MkdirAll(f, Root)
    IN Step(g, <<Call("MkdirAll", Root, IsDir(g, Root))>>, Nil)

\* os.MkdirAll(cfg.Root, 0755)
RootStep(f) ==
    LET g == MkdirAll(f, Root)
        c == Call("MkdirAll", Root, IsDir(g, Root))
    IN Step(g, <<c>>, IF c.ok THEN Nil ELSE c)

\* os.ReadDir(rootAbs)
ReadDir(f) == SelectSeq(RootNames, LAMBDA n : Exists(f, Join(Root, <<n>>)))

RECURSIVE RemoveEntries(_, _)
RemoveEntries(f, names) ==
    IF names = <<>> THEN f
    ELSE RemoveEntries(RemoveAll(f, Join(Root, <<Head(names)>>)), Tail(names))

\* what the clean loop does and logs
Purge(f) ==
    LET names == ReadDir(f)
        g == RemoveEntries(f, names)
    IN Step(g,
            <<Call("ReadDir", Root, TRUE)>>
            \o [i \in DOMAIN names |->
                   Call("RemoveAll", Join(Root, <<names[i]>>), ~Exists(g, Join(Root, <<names[i]>>)))],
            Nil)

\* mutant: the clean step left out
CleanStepSkipped(f, c) == Step(f, <<>>, Nil)

\* mutant: the root purged whatever the flag says
CleanStepAlways(f, c) == Purge(f)

\* if cfg.Clean { for each entry: os.RemoveAll }, every error dropped
CleanStep(f, c) == IF c.Clean THEN Purge(f) ELSE Step(f, <<>>, Nil)

\* mutant: the marker written whatever the flag says
DirStepAlwaysMarker(f, c, i) ==
    LET path == Join(Root, dirs[i])
        g == MkdirAll(f, path)
        marker == Join(path, Gitkeep)
    IN Step(WriteFile(g, marker, Empty),
            <<Call("MkdirAll", path, IsDir(g, path)), Call("WriteFile", marker, CanOpen(g, marker))>>,
            Nil)

\* mutant: a failed marker write returned as generate's error
DirStepFatal(f, c, i) ==
    LET path == Join(Root, dirs[i])
        g == MkdirAll(f, path)
        mk == Call("MkdirAll", path, IsDir(g, path))
        marker == Join(path, Gitkeep)
        wr == Call("WriteFile", marker, CanOpen(g, marker))
    IN IF c.Gitkeep
       THEN Step(WriteFile(g, marker, Empty), <<mk, wr>>, IF wr.ok THEN Nil ELSE wr)
       ELSE Step(g, <<mk>>, Nil)

\* one pass of the loop over dirs: os.MkdirAll, then the marker under -g; every error dropped
DirStep(f, c, i) ==
    LET path == Join(Root, dirs[i])
        g == MkdirAll(f, path)
        mk == Call("MkdirAll", path, IsDir(g, path))
        marker == Join(path, Gitkeep)
    IN IF c.Gitkeep
       THEN Step(WriteFile(g, marker, Empty), <<mk, Call("WriteFile", marker, CanOpen(g, marker))>>, Nil)
       ELSE Step(g, <<mk>>, Nil)

\* mutant: the file opened for appending instead of truncated
StaticStepAppend(f, path, data) ==
    LET c == Call("WriteFile", path, CanOpen(f, path))
    IN Step(WriteFile(f, path, f[path].data \o data), <<c>>, IF c.ok THEN Nil ELSE c)

\* writeGoMod and writeMakefile: one os.WriteFile, its error returned
StaticStep(f, path, data) ==
    LET c == Call("WriteFile", path, CanOpen(f, path))
    IN Step(WriteFile(f, path, data), <<c>>, IF c.ok THEN Nil ELSE c)

\* the whole loop over dirs, from the i-th directory on
RECURSIVE DirsFrom(_, _, _)
DirsFrom(f, c, i) ==
    IF i > Len(dirs) THEN Step(f, <<>>, Nil)
    ELSE LET s == DirStep(f, c, i)
         IN IF s.err # Nil THEN s
            ELSE LET r == DirsFrom(s.fs, c, i + 1)
                 IN Step(r.fs, s.calls \o r.calls, r.err)

DirsStep(f, c) == DirsFrom(f, c, 1)

GoModStep(f, c) == StaticStep(f, Join(Root, GoMod), GoModContent(c.ModuleName))
MakefileStep(f, c) == StaticStep(f, Join(Root, Makefile), MakefileContent(c.Port))

\* mutant: a template that does not parse is passed over instead of ending generate
TemplateStepDropsParseError(f, c, t, st) ==
    LET read == Call("ReadFile", <<t.tmpl>>, st # "missing")
        parse == Call("Parse", <<t.tmpl>>, st # "badsyntax")
        outPath == Join(Root, t.out)
        g == MkdirAll(f, Dir(outPath))
        mk == Call("MkdirAll", Dir(outPath), IsDir(g, Dir(outPath)))
        create == Call("Create", outPath, CanOpen(g, outPath))
        exec == Call("Execute", outPath, st # "execfail")
    IN IF ~read.ok THEN Step(f, <<read>>, read)
       ELSE IF ~parse.ok THEN Step(f, <<read, parse>>, Nil)
       ELSE IF ~create.ok THEN Step(g, <<read, parse, mk, create>>, create)
       ELSE IF ~exec.ok THEN Step(WriteFile(g, outPath, Partial(t.tmpl)), <<read, parse, mk, create, exec>>, exec)
       ELSE Step(WriteFile(g, outPath, Rendered(t.tmpl, c)), <<read, parse, mk, create, exec>>, Nil)

\* writeTemplate, when the store holds `st` for the template
TemplateStep(f, c, t, st) ==
    LET read == Call("ReadFile", <<t.tmpl>>, st # "missing")
        parse == Call("Parse", <<t.tmpl>>, st # "badsyntax")
        outPath == Join(Root, t.out)
        g == MkdirAll(f, Dir(outPath))
        mk == Call("MkdirAll", Dir(outPath), IsDir(g, Dir(outPath)))
        create == Call("Create", outPath, CanOpen(g, outPath))
        exec == Call("Execute", outPath, st # "execfail")
    IN IF ~read.ok THEN Step(f, <<read>>, read)
       ELSE IF ~parse.ok THEN Step(f, <<read, parse>>, parse)
       ELSE IF ~create.ok THEN Step(g, <<read, parse, mk, create>>, create)
       ELSE IF ~exec.ok THEN Step(WriteFile(g, outPath, Partial(t.tmpl)), <<read, parse, mk, create, exec>>, exec)
       ELSE Step(WriteFile(g, outPath, Rendered(t.tmpl, c)), <<read, parse, mk, create, exec>>, Nil)

(***************************************************************************)
(* Actions                                                                 *)
(***************************************************************************)
\* if *showVersion { print; return }
ShowVersion ==
    /\ pc = "main"
    /\ flags.showVersion
    /\ pc' = "exit"
    /\ exitCode' = 0
    /\ UNCHANGED <<idx, fs, flags, stdin, cfg, tmplFS, err, ops, installs, fs0, fs1, run>>

\* cfg := Config{flags}; the prompts under -i; the default module; then generate(cfg)
ResolveConfig ==
    /\ pc = "main"
    /\ ~flags.showVersion
    /\ cfg' = ResolvedConfig(flags, stdin)
    /\ pc' = "generate"
    /\ run' = 1
    /\ UNCHANGED <<idx, fs, flags, stdin, tmplFS, err, ops, exitCode, installs, fs0, fs1>>

\* generate: the root
MakeRoot ==
    /\ pc = "generate"
    /\ LET s == RootStep(fs)
       IN /\ fs' = s.fs
          /\ ops' = ops \o s.calls
          /\ err' = s.err
          /\ pc' = IF s.err = Nil THEN "clean" ELSE "ret"
    /\ UNCHANGED <<idx, flags, stdin, cfg, tmplFS, exitCode, installs, fs0, fs1, run>>

\* generate: the clean step
Clean ==
    /\ pc = "clean"
    /\ LET s == CleanStep(fs, cfg)
       IN /\ fs' = s.fs
          /\ ops' = ops \o s.calls
          /\ err' = s.err
          /\ pc' = IF s.err = Nil THEN "dirs" ELSE "ret"
    /\ idx' = 1
    /\ UNCHANGED <<flags, stdin, cfg, tmplFS, exitCode, installs, fs0, fs1, run>>

\* generate: the directories of the manifest
MakeDirs ==
    /\ pc = "dirs"
    /\ LET s == DirsStep(fs, cfg)
       IN /\ fs' = s.fs
          /\ ops' = ops \o s.calls
          /\ err' = s.err
          /\ pc' = IF s.err = Nil THEN "gomod" ELSE "ret"
    /\ UNCHANGED <<idx, flags, stdin, cfg, tmplFS, exitCode, installs, fs0, fs1, run>>

\* generate: go.mod
WriteGoMod ==
    /\ pc = "gomod"
    /\ LET s == GoModStep(fs, cfg)
       IN /\ fs' = s.fs
          /\ ops' = ops \o s.calls
          /\ err' = s.err
          /\ pc' = IF s.err = Nil THEN "makefile" ELSE "ret"
    /\ UNCHANGED <<idx, flags, stdin, cfg, tmplFS, exitCode, installs, fs0, fs1, run>>

\* generate: Makefile
WriteMakefile ==
    /\ pc = "makefile"
    /\ LET s == MakefileStep(fs, cfg)
       IN /\ fs' = s.fs
          /\ ops' = ops \o s.calls
          /\ err' = s.err
          /\ pc' = IF s.err = Nil THEN "tmpl" ELSE "ret"
    /\ UNCHANGED <<idx, flags, stdin, cfg, tmplFS, exitCode, installs, fs0, fs1, run>>

\* generate: one writeTemplate call.  The embedded store is fixed when the program is
\* built; what it holds for a template shows at the first read and stays.
WriteTemplate ==
    /\ pc = "tmpl"
    /\ LET t == templates[idx]
       IN \E st \in (IF tmplFS[t.tmpl] = "unknown" THEN TemplateStates ELSE {tmplFS[t.tmpl]}) :
            LET s == TemplateStep(fs, cfg, t, st)
            IN /\ tmplFS' = [tmplFS EXCEPT ![t.tmpl] = st]
               /\ fs' = s.fs
               /\ ops' = ops \o s.calls
               /\ err' = s.err
               /\ IF s.err = Nil /\ idx < Len(templates)
                  THEN pc' = "tmpl" /\ idx' = idx + 1
                  ELSE pc' = "ret" /\ idx' = idx
    /\ UNCHANGED <<flags, stdin, cfg, exitCode, installs, fs0, fs1, run>>

\* main: generate returned an error; os.Exit(1)
ExitOnError ==
    /\ pc = "ret"
    /\ err # Nil
    /\ pc' = "exit"
    /\ exitCode' = 1
    /\ UNCHANGED <<idx, fs, flags, stdin, cfg, tmplFS, err, ops, installs, fs0, fs1, run>>

\* mutant: a failed `go mod tidy` ends the process with status 1
InstallFatal ==
    /\ pc = "ret"
    /\ err = Nil
    /\ \E ok \in BOOLEAN, sum \in BOOLEAN :
        /\ installs' = Append(installs, [dir |-> cfg.Root, ok |-> ok])
        /\ fs' = IF sum THEN WriteFile(fs, Join(Root, GoSum), <<"sums">>) ELSE fs
        /\ exitCode' = IF ok THEN 0 ELSE 1
    /\ pc' = "exit"
    /\ UNCHANGED <<idx, flags, stdin, cfg, tmplFS, err, ops, fs0, fs1, run>>

\* main: generate returned nil; installDependencies(cfg.Root) runs `go mod tidy` in the
\* root, which may or may not succeed and may or may not write go.sum; main returns
Install ==
    /\ pc = "ret"
    /\ err = Nil
    /\ \E ok \in BOOLEAN, sum \in BOOLEAN :
        /\ installs' = Append(installs, [dir |-> cfg.Root, ok |-> ok])
        /\ fs' = IF sum THEN WriteFile(fs, Join(Root, GoSum), <<"sums">>) ELSE fs
    /\ pc' = "exit"
    /\ exitCode' = 0
    /\ UNCHANGED <<idx, flags, stdin, cfg, tmplFS, err, ops, fs0, fs1, run>>

\* generate is run again with the same configuration
Rerun ==
    /\ pc = "ret"
    /\ run < MaxRuns
    /\ fs1' = fs
    /\ run' = run + 1
    /\ pc' = "generate"
    /\ idx' = 1
    /\ err' = Nil
    /\ ops' = <<>>
    /\ UNCHANGED <<fs, flags, stdin, cfg, tmplFS, exitCode, installs, fs0>>

Next ==
    \/ ShowVersion
    \/ ResolveConfig
    \/ MakeRoot
    \/ Clean
    \/ MakeDirs
    \/ WriteGoMod
    \/ WriteMakefile
    \/ WriteTemplate
    \/ ExitOnError
    \/ Install
    \/ Rerun

Spec == Init /\ [][Next]_vars

TypeOK ==
    /\ pc \in {"main", "generate", "clean", "dirs", "gomod", "makefile", "tmpl", "ret", "exit"}
    /\ WellFormed(fs)
    /\ exitCode \in {0, 1}
    /\ run \in 0..MaxRuns

(***************************************************************************)
(* Properties                                                              *)
(***************************************************************************)
\* the file system when the current run of generate began
StartFS == IF run <= 1 THEN fs0 ELSE fs1
Calls(op) == {i \in DOMAIN ops : ops[i].op = op}
FailedMarkers == {ops[i].path : i \in {j \in Calls("WriteFile") : ops[j].path \in MarkerPaths /\ ~ops[j].ok}}
\* the entries directly under the root that generate never creates
NonArtifacts == {Join(Root, Foo), Join(Root, GoSum), Join(Root, Vendor)}
AfterClean == pc \in {"dirs", "gomod", "makefile", "tmpl", "ret"}

RECURSIVE Removable(_, _)
Removable(f, p) == f[Dir(p)].w /\ \A q \in Children(f, p) : Removable(f, q)

\* C1: if creating the root fails, generate returns that error and has made no other
\* call and changed nothing on the file system.
C1_RootFailureAborts ==
    (ops # <<>> /\ ops[1] = Call("MkdirAll", Root, FALSE)) =>
        /\ pc \in {"ret", "exit"}
        /\ err = ops[1]
        /\ Len(ops) = 1
        /\ fs = StartFS

C1_Witness == pc = "ret" /\ err # Nil /\ ops = <<Call("MkdirAll", Root, FALSE)>>

\* C2: whenever generate returns nil, each of the 13 manifest paths is a directory and
\* each of the 4 template outputs is a file.
C2_ManifestComplete ==
    (pc = "ret" /\ err = Nil) =>
        /\ \A d \in DirPaths : IsDir(fs, d)
        /\ \A o \in OutPaths : IsFile(fs, o)

C4_MarkersOnlyUnderG ==
    (pc = "ret" /\ err = Nil) =>
        IF cfg.Gitkeep
        THEN \A m \in MarkerPaths : IsFile(fs, m)
        ELSE \A m \in MarkerPaths : ~Exists(fs, m)

\* C4 as amended: without -g generate writes no .gitkeep, so one that exists after
\* generation was there before and is unchanged; with -g, once the root is created, the
\* write is attempted in each of the 13 manifest directories, and where it succeeded the
\* directory holds an empty .gitkeep.
C4_MarkersWrittenOnlyUnderG ==
    pc = "ret" =>
        IF cfg.Gitkeep
        THEN ops[1].ok =>
                \A m \in MarkerPaths :
                    \E i \in Calls("WriteFile") :
                        /\ ops[i].path = m
                        /\ ops[i].ok => fs[m] = FileNode(TRUE, Empty)
        ELSE /\ \A i \in Calls("WriteFile") : ops[i].path \notin MarkerPaths
             /\ \A m \in MarkerPaths : Exists(fs, m) => fs[m] = StartFS[m]

C4_Witness ==
    /\ pc = "ret" /\ cfg.Gitkeep /\ err = Nil
    /\ fs0[Join(Root, <<"cmd", ".gitkeep">>)] = FileNode(TRUE, Old)
    /\ \A m \in MarkerPaths : fs[m] = FileNode(TRUE, Empty)

\* C5 as claimed: when the marker write fails in one manifest directory, the other
\* manifest directories are still created, go.mod and Makefile are still written, all four
\* template outputs are still written and generate completes (the template store being
\* sound).
C5_MarkerFailureCompletes ==
    (pc = "ret" /\ Cardinality(FailedMarkers) = 1 /\ \A t \in DOMAIN tmplFS : tmplFS[t] \in {"unknown", "ok"}) =>
        /\ err = Nil
        /\ \A d \in DirPaths : Join(d, Gitkeep) \notin FailedMarkers => IsDir(fs, d)
        /\ fs[Join(Root, GoMod)] = FileNode(TRUE, GoModContent(cfg.ModuleName))
        /\ fs[Join(Root, Makefile)] = FileNode(TRUE, MakefileContent(cfg.Port))
        /\ \A k \in DOMAIN templates :
              fs[Join(Root, templates[k].out)] = FileNode(TRUE, Rendered(templates[k].tmpl, cfg))

\* C5 as amended: a failed marker write never ends generate: MkdirAll is still called for
\* all 13 manifest directories (and each one it succeeded for is a directory), the go.mod
\* write is still attempted, and the error generate returns, if any, is that of a later
\* call that failed itself, never the marker's; when it returns nil, go.mod, Makefile and
\* the four template outputs are written.
C5_MarkerFailureDropped ==
    (pc = "ret" /\ FailedMarkers # {}) =>
        /\ \A d \in DirPaths : \E i \in Calls("MkdirAll") : ops[i].path = d /\ (ops[i].ok => IsDir(fs, d))
        /\ \E i \in Calls("WriteFile") : ops[i].path = Join(Root, GoMod)
        /\ err.path \notin MarkerPaths
        /\ err # Nil => err = ops[Len(ops)] /\ ~err.ok
        /\ err = Nil =>
            /\ fs[Join(Root, GoMod)] = FileNode(TRUE, GoModContent(cfg.ModuleName))
            /\ fs[Join(Root, Makefile)] = FileNode(TRUE, MakefileContent(cfg.Port))
            /\ \A k \in DOMAIN templates :
                  fs[Join(Root, templates[k].out)] = FileNode(TRUE, Rendered(templates[k].tmpl, cfg))

C5_Witness ==
    /\ pc = "ret" /\ err = Nil
    /\ FailedMarkers = {Join(Root, <<"recievers", ".gitkeep">>)}
    /\ IsDir(fs, Join(Root, <<"recievers">>))
    /\ \A o \in OutPaths : IsFile(fs, o)

\* C6: a second run of generate with the same configuration and -c leaves the tree the
\* first run left: the same directories and files with the same contents.
C6_RerunSameTree == (pc = "ret" /\ run >= 2 /\ cfg.Clean) => fs = fs1

C6_Witness ==
    /\ pc = "ret" /\ run = 2 /\ cfg.Clean /\ err = Nil
    /\ Exists(fs0, Join(Root, Foo))
    /\ fs = fs1 /\ fs # fs0

\* the calls whose error generate returns
FatalCall(c) ==
    \/ c.op \in {"ReadFile", "Parse", "Create", "Execute"}
    \/ c.op = "WriteFile" /\ c.path \in StaticPaths
\* the place of a call in the order of generate's load-bearing steps
Rank(c) ==
    IF c.path = Join(Root, GoMod) THEN 1
    ELSE IF c.path = Join(Root, Makefile) THEN 2
    ELSE 2 + (CHOOSE k \in DOMAIN templates : c.path \in {<<templates[k].tmpl>>, Join(Root, templates[k].out)})
\* a path this run of generate wrote successfully
WrittenInRun(p) ==
    \E i \in DOMAIN ops : ops[i].path = p /\ ops[i].ok /\ ops[i].op \in {"WriteFile", "Create"}


\* C7: the first failed write of go.mod or Makefile, or the first template that fails to
\* load, parse, be created or execute, is the last call generate makes and is what it
\* returns; the calls come in the order go.mod, Makefile, then the templates in manifest
\* order; a static file or template output with no successful write in this run is as it
\* was when the run began, or was purged.
C7_FirstFatalErrorStops ==
    /\ \A i \in DOMAIN ops :
          (FatalCall(ops[i]) /\ ~ops[i].ok) => (i = Len(ops) /\ err = ops[i] /\ pc \in {"ret", "exit"})
    /\ \A i, j \in DOMAIN ops :
          (i < j /\ FatalCall(ops[i]) /\ FatalCall(ops[j])) => Rank(ops[i]) <= Rank(ops[j])
    /\ (pc = "ret" /\ err # Nil) =>
          \A p \in StaticPaths \cup OutPaths : ~WrittenInRun(p) => fs[p] \in {StartFS[p], NoNode}

C7_Witness ==
    /\ pc = "ret" /\ err = Call("Parse", <<templates[2].tmpl>>, FALSE)
    /\ fs[Join(Root, templates[1].out)] = FileNode(TRUE, Rendered(templates[1].tmpl, cfg))
    /\ \A k \in 2..Len(templates) : ~Exists(fs, Join(Root, templates[k].out))

\* C8: the exit status is 1 exactly when generate returned an error; --version exits 0
\* with generate not run, the file system untouched and no install; a generation that
\* succeeded exits 0 whatever the installer returned; the installer runs only after
\* generate returned nil, once, in cfg.Root.
C8_ExitStatus ==
    /\ pc = "exit" =>
        /\ exitCode = 1 <=> err # Nil
        /\ flags.showVersion => (exitCode = 0 /\ run = 0 /\ ops = <<>> /\ fs = fs0 /\ installs = <<>>)
        /\ (~flags.showVersion /\ err = Nil) => (exitCode = 0 /\ Len(installs) = 1)
    /\ installs # <<>> =>
        /\ pc = "exit" /\ err = Nil /\ run >= 1 /\ ~flags.showVersion
        /\ installs = <<[dir |-> cfg.Root, ok |-> installs[1].ok]>>

C8_Witness == pc = "exit" /\ exitCode = 0 /\ Len(installs) = 1 /\ ~installs[1].ok /\ err = Nil

Yes(line) == ToLower(TrimSpace(line)) = <<"y">>
No(line) == ToLower(TrimSpace(line)) = <<"n">>

\* C9: under -i the configuration passed to generate is the one the typed answers
\* determine, whatever the flags were: a typed root, module or port is the value, and
\* .gitkeep and clean are on when the answer was yes and off when the answer was no.
C9_AnswersOverrideFlags ==
    (pc # "main" /\ flags.interactive /\ ~flags.showVersion) =>
        /\ TrimSpace(Line(stdin, 1)) # <<>> => cfg.Root = TrimSpace(Line(stdin, 1))
        /\ TrimSpace(Line(stdin, 2)) # <<>> => cfg.ModuleName = TrimSpace(Line(stdin, 2))
        /\ TrimSpace(Line(stdin, 3)) # <<>> => cfg.Port = TrimSpace(Line(stdin, 3))
        /\ Yes(Line(stdin, 4)) => cfg.Gitkeep
        /\ No(Line(stdin, 4)) => ~cfg.Gitkeep
        /\ Yes(Line(stdin, 5)) => cfg.Clean
        /\ No(Line(stdin, 5)) => ~cfg.Clean

\* the files generate writes under configuration c
WrittenPaths(c) == StaticPaths \cup OutPaths \cup (IF c.Gitkeep THEN MarkerPaths ELSE {})

\* C10: without -c generate removes nothing and replaces no entry by one of another
\* kind, leaves every directory that existed as it was, changes no file other than go.mod,
\* Makefile, the four template outputs and, under -g only, the .gitkeep of the manifest
\* directories, and touches nothing outside the root; when it returns nil, go.mod and
\* Makefile hold the generated text whatever they held before.
C10_FrameWithoutClean ==
    (~cfg.Clean /\ installs = <<>>) =>
        /\ \A p \in Paths : Exists(fs0, p) => (fs[p].kind = fs0[p].kind /\ (IsDir(fs0, p) => fs[p] = fs0[p]))
        /\ \A p \in Paths : (IsFile(fs, p) /\ fs[p] # fs0[p]) => p \in WrittenPaths(cfg)
        /\ \A p \in Paths : (p # Root /\ ~IsUnder(p, Root)) => fs[p] = fs0[p]
        /\ (pc = "ret" /\ err = Nil) =>
            /\ fs[Join(Root, GoMod)] = FileNode(TRUE, GoModContent(cfg.ModuleName))
            /\ fs[Join(Root, Makefile)] = FileNode(TRUE, MakefileContent(cfg.Port))

C10_Witness ==
    /\ pc = "ret" /\ err = Nil /\ ~cfg.Clean
    /\ fs0[Join(Root, GoMod)] = FileNode(TRUE, Old)
    /\ fs[Join(Root, GoMod)] = FileNode(TRUE, GoModContent(cfg.ModuleName))
    /\ fs[Other] = FileNode(TRUE, Old)

====
